---- MODULE Spec2Model ----
(***************************************************************************)
(* TaskFlow single-page client (eyelevel-pm): the React component App and  *)
(* the remote store it talks to.                                           *)
(*                                                                         *)
(* The repository holds the component in more than one version.  The       *)
(* variable `variant` says which one runs: "App" is src/src/App.jsx (the   *)
(* module src/src/main.jsx renders), "part_000" is src/unnamed/part_000.   *)
(*                                                                         *)
(* Every backend call is a request the store executes when it is issued;   *)
(* its response travels back and is consumed by the handler's continuation *)
(* in a later step.  The requests in flight are the bag `inflight`; the    *)
(* responses may be consumed in any order.  A continuation runs with the   *)
(* values its closure captured when the handler was invoked (`cap`).       *)
(*                                                                         *)
(* Three specifications share the variables.  Spec is the mounted          *)
(* component after a successful initialization: sessions, fetches and the  *)
(* handlers.  SpecInit (LiveInit with fairness) is the initialization      *)
(* effect, from the page before the first mount.  SpecStats is the         *)
(* dashboard's aggregate, computed for task lists drawn from a bounded set.*)
(***************************************************************************)
EXTENDS Integers, Sequences, FiniteSets, Bags, TLC

VARIABLES
  variant,      \* which version of the component runs
  dbProfiles,   \* store, table profiles: user id -> role, or NoRow
  dupProfiles,  \* store, table profiles: the ids that have more than one row
  dbTasks,      \* store, table tasks: the set of its rows
  dbNextId,     \* store: id the next inserted task gets
  session,      \* useState session: the signed-in user id, or NULL
  profile,      \* useState profile: [id, role], or NoProfile
  tasks,        \* useState tasks: sequence of task rows
  partners,     \* useState partners: sequence of profile rows
  loading,      \* useState loading
  errorMsg,     \* useState errorMsg
  alertMsg,     \* the alert() the last step showed, "" when it showed none
  inflight,     \* bag of backend requests whose response is not consumed yet
  calls,        \* how many times the user has acted on the page so far
  mounted,      \* isMounted of the initialization effect
  subs,         \* onAuthStateChange registrations active with the provider
  stats,        \* useMemo stats: what the dashboard last computed, or NoStats
  strictMode,   \* the build double-invokes effects (React.StrictMode, development)
  creds,        \* VITE_SUPABASE_URL and VITE_SUPABASE_ANON_KEY are both set
  scriptTag,    \* the document holds the element with id supabase-sdk
  sdk,          \* window.supabase is defined
  supabaseInstance, \* the module's client handle: NoClient, or the number of the
                \* createClient call that built it
  created,      \* how many createClient calls have returned a handle
  effect        \* how many times the initialization effect has run; its
                \* latest closure is the one `mounted` is the isMounted of

vars == <<variant, dbProfiles, dupProfiles, dbTasks, dbNextId, session, profile, tasks,
          partners, loading, errorMsg, alertMsg, inflight, calls, mounted,
          subs, stats, strictMode, creds, scriptTag, sdk, supabaseInstance,
          created, effect>>

store  == <<dbProfiles, dupProfiles, dbTasks, dbNextId>>
profilesTable == <<dbProfiles, dupProfiles>>
client == <<session, profile, tasks, partners, loading, errorMsg>>
life   == <<mounted, subs>>

\* what no handler, continuation or callback of the component assigns
page == <<strictMode, creds, scriptTag, sdk, supabaseInstance, created, effect>>
outside == <<variant, stats, page>>

----------------------------------------------------------------------------
(* Bounds and input sets *)

MaxTasks == 2        \* task ids the store hands out: 1..MaxTasks
MaxInflight == 2     \* backend requests in flight at once
MaxCalls == 2        \* handler invocations by the user in one run

Variants == {"App", "part_000"}
Users    == {"a", "p"}     \* identities of the auth provider
NULL     == "null"
NoRow    == "norow"
TaskIds  == 1..MaxTasks

statusOrder == <<"Pending", "In Progress", "Completed">>
Statuses    == {statusOrder[i] : i \in 1..3}

----------------------------------------------------------------------------
(* The store's query contract *)

\* rows of table tasks
StoredTasks == dbTasks

\* .order('created_at', { ascending: false }): ids are handed out in creation
\* order, so the newest row has the largest id
RECURSIVE OrderDesc(_)
OrderDesc(S) ==
  IF S = {} THEN <<>>
  ELSE LET t == CHOOSE x \in S : \A y \in S : y.id <= x.id
       IN  <<t>> \o OrderDesc(S \ {t})

Rows(seq) == {seq[i] : i \in 1..Len(seq)}

\* rows of table profiles
ProfileRow(u) == [id |-> u, role |-> dbProfiles[u]]
StoredProfiles == {ProfileRow(u) : u \in {v \in Users : dbProfiles[v] # NoRow}}

\* the further rows of the ids that have more than one: each was inserted by
\* fetchProfile as a default profile
ExtraProfiles == {[id |-> u, role |-> "partner"] : u \in dupProfiles}

RECURSIVE SeqOfSet(_)
SeqOfSet(S) ==
  IF S = {} THEN <<>>
  ELSE LET x == CHOOSE y \in S : TRUE IN <<x>> \o SeqOfSet(S \ {x})

----------------------------------------------------------------------------
(* Closures *)

\* useState(null) of profile; profile?.role of it is undefined
NoProfile == [id |-> NULL, role |-> NULL]

\* let supabaseInstance = null
NoClient == 0

\* stats before the dashboard has computed it
NoStats == <<>>

\* isAdmin taking a profile that has not loaded for an admin's
isAdminUnlessPartner == profile.role # "partner"

isAdmin == profile.role = "admin"

\* what a handler created in the current render captured
Cap == [role |-> profile.role, uid |-> session]

Room(n) == BagCardinality(inflight) + n <= MaxInflight

Issue(bag, op) == bag (+) SetToBag({op})
Consume(op)    == inflight (-) SetToBag({op})

\* the user invokes a handler of the mounted component
Invoked ==
  /\ mounted
  /\ calls < MaxCalls /\ calls' = calls + 1
  /\ UNCHANGED life

\* a continuation or a callback runs, not the user
Resumed == UNCHANGED <<calls, life>>

\* the main screen is rendered: not the spinner, not the auth screen
MainApp == ~loading /\ session # NULL

----------------------------------------------------------------------------
(* Requests.  A request record says what was asked (kind), what the store  *)
(* answered (ok, data) and what the continuation still needs: the values   *)
(* the closure captured (cap) and the user the request is about (user).    *)
(* The requests of handleRemovePartner carry as tid the id the store would *)
(* hand out next when the handler deleted the partner's tasks.             *)

NoCap == [role |-> NULL, uid |-> NULL]

Req(kind, ok, data, cap, user, tid) ==
  [kind |-> kind, ok |-> ok, data |-> data, cap |-> cap, user |-> user,
   tid |-> tid, next |-> ""]

\* a request whose continuation goes on with `next` after the await
Then(req, next) == [req EXCEPT !.next = next]

\* Scoped with the filter added for every role
ScopedAlways(role) == TRUE

\* fetchTasks: whether the query carries .eq('assigned_to', session.user.id)
Scoped(role) ==
  IF variant = "App" THEN role = "partner" ELSE role # "admin"

\* fetchTasks: the rows the query selects
QueryTasks(cap) ==
  IF Scoped(cap.role)
  THEN {t \in StoredTasks : t.assigned_to = cap.uid}
  ELSE StoredTasks

\* fetchTasks up to its await: the request of a closure that captured cap
FetchTasksReq(cap, ok) ==
  Req("fetchTasks", ok, IF ok THEN OrderDesc(QueryTasks(cap)) ELSE <<>>,
      cap, NULL, 0)

\* fetchPartners up to its await
FetchPartnersReq(cap, ok) ==
  Req("fetchPartners", ok,
      IF ~ok THEN <<>>
      ELSE SeqOfSet(StoredProfiles) \o SeqOfSet(ExtraProfiles),
      cap, NULL, 0)

\* fetchProfile up to its await: .select('*').eq('id', userId).single()
\* answers the row, or the error PGRST116 when the rows selected are not
\* exactly one (ok, no data), or another error
FetchProfileReq(userId, ok) ==
  Req("fetchProfile", ok,
      IF ok /\ dbProfiles[userId] # NoRow /\ userId \notin dupProfiles
      THEN <<ProfileRow(userId)>> ELSE <<>>,
      NoCap, userId, 0)

\* IsNotFound taking every error for PGRST116
IsNotFoundAnyError(op) == op.data = <<>>

\* fetchProfile: err.code === 'PGRST116'
IsNotFound(op) == op.ok /\ op.data = <<>>

\* EffectReqs without the fetchPartners of an admin
EffectReqsNoPartners(s, pr, okT, okP) ==
  IF s # NULL /\ pr # NoProfile
  THEN SetToBag({FetchTasksReq([role |-> pr.role, uid |-> s], okT)})
  ELSE EmptyBag

\* useEffect(..., [session, profile]) of a render with session s and profile pr
EffectReqs(s, pr, okT, okP) ==
  IF s # NULL /\ pr # NoProfile
  THEN SetToBag({FetchTasksReq([role |-> pr.role, uid |-> s], okT)})
       (+) (IF pr.role = "admin"
            THEN SetToBag({FetchPartnersReq([role |-> pr.role, uid |-> s], okP)})
            ELSE EmptyBag)
  ELSE EmptyBag

Fits(bag) == BagCardinality(bag) <= MaxInflight

----------------------------------------------------------------------------
(* Initial state: the component is mounted, the client is constructed and  *)
(* the callback of the initial getSession() has run: nobody is signed in,  *)
(* or a user is and the callback has called fetchProfile.  The store holds *)
(* the profile of an admin and, unless they have never signed in, of a     *)
(* partner, and one task that the admin created earlier, assigned to       *)
(* nobody or to the partner.                                               *)

SeedTask(as) ==
  [id |-> 1, title |-> "T", project |-> "General", assigned_to |-> as,
   due_date |-> NULL, created_by |-> "a", status |-> "Pending"]

SeedStores == {{SeedTask(as)} : as \in {NULL, "p"}}

\* the partner has a profile, or has never signed in yet
SeedProfiles == {[u \in Users |-> IF u = "a" THEN "admin" ELSE r] :
                   r \in {"partner", NoRow}}

\* the page of a production build after an initialization that succeeded
Initialized ==
  /\ strictMode = FALSE
  /\ creds = TRUE
  /\ scriptTag = TRUE
  /\ sdk = TRUE
  /\ supabaseInstance = 1
  /\ created = 1
  /\ effect = 1

Init ==
  /\ variant \in Variants
  /\ dbProfiles \in SeedProfiles
  /\ dupProfiles = {}
  /\ dbTasks \in SeedStores
  /\ \A t \in dbTasks : t.assigned_to # NULL => dbProfiles[t.assigned_to] # NoRow
  /\ dbNextId = Cardinality(dbTasks) + 1
  /\ session \in {NULL} \cup Users
  /\ profile = NoProfile
  /\ tasks = <<>>
  /\ partners = <<>>
  /\ loading = FALSE
  /\ errorMsg = ""
  /\ alertMsg = ""
  /\ \E ok \in BOOLEAN :
       inflight = IF session = NULL THEN EmptyBag
                  ELSE SetToBag({FetchProfileReq(session, ok)})
  /\ calls = 0
  /\ mounted = TRUE
  /\ subs = 1
  /\ stats = NoStats
  /\ Initialized

----------------------------------------------------------------------------
(* Session *)

\* handleAuth up to its await, submitted from the auth screen
handleAuth(authMode, u, ok) ==
  /\ Invoked
  /\ ~loading /\ session = NULL /\ errorMsg = ""
  /\ Room(1)
  /\ loading' = TRUE
  /\ errorMsg' = ""
  /\ alertMsg' = ""
  /\ inflight' = Issue(inflight, Req(authMode, ok, <<>>, NoCap, u, 0))
  /\ UNCHANGED <<outside, store, session, profile, tasks, partners>>

\* handleAuth after signInWithPassword: on success the provider notifies the
\* onAuthStateChange callback (setSession, fetchProfile), then finally
authResolveLogin(op, okF, okT, okP) ==
  /\ Resumed
  /\ op.kind = "login"
  /\ loading' = FALSE
  /\ IF op.ok /\ ~mounted
     THEN \* the callback finds isMounted false
          /\ inflight' = Consume(op)
          /\ alertMsg' = ""
          /\ UNCHANGED <<session, errorMsg>>
     ELSE IF op.ok
     THEN LET bag == Issue(Consume(op), FetchProfileReq(op.user, okF))
                       (+) EffectReqs(op.user, profile, okT, okP)
          IN  /\ Fits(bag)
              /\ inflight' = bag
              /\ session' = op.user
              /\ alertMsg' = ""
              /\ UNCHANGED errorMsg
     ELSE /\ inflight' = Consume(op)
          /\ errorMsg' = "Invalid login credentials"
          /\ alertMsg' = "Invalid login credentials"
          /\ UNCHANGED session
  /\ UNCHANGED <<outside, store, profile, tasks, partners>>

\* handleAuth after signUp: no session is established
authResolveSignup(op) ==
  /\ Resumed
  /\ op.kind = "signup"
  /\ loading' = FALSE
  /\ inflight' = Consume(op)
  /\ IF op.ok
     THEN /\ alertMsg' = "Account created"
          /\ UNCHANGED errorMsg
     ELSE /\ errorMsg' = "Sign up failed"
          /\ alertMsg' = "Sign up failed"
  /\ UNCHANGED <<outside, store, session, profile, tasks, partners>>

\* the sign-out button: supabaseInstance.auth.signOut(), whose notification
\* runs the onAuthStateChange callback without a session
signOut ==
  /\ Invoked
  /\ MainApp
  /\ session' = NULL
  /\ profile' = NoProfile
  /\ tasks' = <<>>
  /\ partners' = <<>>
  /\ alertMsg' = ""
  /\ UNCHANGED <<outside, store, loading, errorMsg, inflight>>

\* the component is torn down: the cleanup of the initialization effect sets
\* isMounted to false; the function initSupabase returns, which would call
\* subscription.unsubscribe(), was dropped by its caller
unmount ==
  /\ mounted
  /\ calls < MaxCalls /\ calls' = calls + 1
  /\ mounted' = FALSE
  /\ subs' = subs
  /\ alertMsg' = ""
  /\ UNCHANGED <<outside, store, client, inflight>>

----------------------------------------------------------------------------
(* Fetches *)

\* setProfile(row) and, while the component is mounted, the effect of the
\* render that follows
SetProfile(bag, row, okT, okP) ==
  LET bag2 == bag (+) (IF mounted THEN EffectReqs(session, row, okT, okP)
                       ELSE EmptyBag)
  IN  /\ Fits(bag2)
      /\ inflight' = bag2
      /\ profile' = row

\* InsertProfile writing the role admin
InsertProfileAdmin(userId, ok) ==
  IF ~ok THEN profilesTable
  ELSE IF dbProfiles[userId] = NoRow
  THEN <<[dbProfiles EXCEPT ![userId] = "admin"], dupProfiles>>
  ELSE <<dbProfiles, dupProfiles \cup {userId}>>

\* .insert([{id: userId, ..., role: 'partner'}]): the table after the insert
InsertProfile(userId, ok) ==
  IF ~ok THEN profilesTable
  ELSE IF dbProfiles[userId] = NoRow
  THEN <<[dbProfiles EXCEPT ![userId] = "partner"], dupProfiles>>
  ELSE <<dbProfiles, dupProfiles \cup {userId}>>

\* fetchProfile after the select
fetchProfileResolve(op, okI, okT, okP) ==
  /\ Resumed
  /\ op.kind = "fetchProfile"
  /\ alertMsg' = ""
  /\ IF op.ok /\ op.data # <<>>
     THEN /\ SetProfile(Consume(op), op.data[1], okT, okP)
          /\ UNCHANGED store
     ELSE IF variant = "App" /\ IsNotFound(op)
     THEN \* insert the default profile; the store adds the row, or refuses
          LET row == [id |-> op.user, role |-> "partner"]
          IN  /\ dbProfiles' = InsertProfile(op.user, okI)[1]
              /\ dupProfiles' = InsertProfile(op.user, okI)[2]
              /\ inflight' = Issue(Consume(op),
                                   Req("insertProfile", okI,
                                       IF okI THEN <<row>> ELSE <<>>,
                                       NoCap, op.user, 0))
              /\ UNCHANGED <<dbTasks, dbNextId, profile>>
     ELSE /\ inflight' = Consume(op)
          /\ UNCHANGED <<store, profile>>
  /\ UNCHANGED <<outside, session, tasks, partners, loading, errorMsg>>

\* fetchProfile after the insert of the default profile
insertProfileResolve(op, okT, okP) ==
  /\ Resumed
  /\ op.kind = "insertProfile"
  /\ alertMsg' = ""
  /\ IF op.ok
     THEN SetProfile(Consume(op), op.data[1], okT, okP)
     ELSE /\ inflight' = Consume(op)
          /\ UNCHANGED profile
  /\ UNCHANGED <<outside, store, session, tasks, partners, loading, errorMsg>>

\* what fetchTasks does with the answer
TasksAfterFetch(op) ==
  IF op.ok THEN op.data
  ELSE IF variant = "App" THEN <<>> ELSE tasks

\* fetchTasks after its await; a handler that awaited it then shows its alert
fetchTasksResolve(op) ==
  /\ Resumed
  /\ op.kind = "fetchTasks"
  /\ tasks' = TasksAfterFetch(op)
  /\ inflight' = Consume(op)
  /\ alertMsg' = op.next
  /\ UNCHANGED <<outside, store, session, profile, partners, loading, errorMsg>>

\* fetchPartners after its await, called from the effect
fetchPartnersResolve(op) ==
  /\ Resumed
  /\ op.kind = "fetchPartners" /\ op.next = ""
  /\ partners' = (IF op.ok THEN op.data
                  ELSE IF variant = "App" THEN <<>> ELSE partners)
  /\ inflight' = Consume(op)
  /\ alertMsg' = ""
  /\ UNCHANGED <<outside, store, session, profile, tasks, loading, errorMsg>>

----------------------------------------------------------------------------
(* Task handlers *)

\* NextStatus with the last two entries of the order swapped
NextStatusSwapped(s) ==
  IF s = "Pending" THEN "Completed"
  ELSE IF s = "Completed" THEN "In Progress" ELSE "Pending"

\* NextStatus with a status spelled unlike the column's values
NextStatusTypo(s) ==
  IF s = "Pending" THEN "InProgress"
  ELSE IF s = "In Progress" THEN "Completed" ELSE "Pending"

\* toggleTaskStatus: the status written for a task whose copy shows status s
NextStatus(s) ==
  IF variant = "App"
  THEN LET currentIndex == IF \E i \in 1..3 : statusOrder[i] = s
                           THEN (CHOOSE i \in 1..3 : statusOrder[i] = s) - 1
                           ELSE -1
       IN  statusOrder[((currentIndex + 1) % 3) + 1]
  ELSE IF s = "Pending" THEN "In Progress"
       ELSE IF s = "In Progress" THEN "Completed" ELSE "Pending"

\* .update({status}).eq('id', id): the table after the update
UpdateStatus(id, status) ==
  {IF t.id = id THEN [t EXCEPT !.status = status] ELSE t : t \in dbTasks}

\* toggleTaskStatus up to its await, for a row of the displayed list
toggleTaskStatus(task, ok) ==
  /\ Invoked
  /\ MainApp
  /\ task \in Rows(tasks)
  /\ Room(1)
  /\ dbTasks' = IF ok THEN UpdateStatus(task.id, NextStatus(task.status))
                ELSE dbTasks
  /\ inflight' = Issue(inflight, Req("toggle", ok, <<>>, Cap, NULL, 0))
  /\ alertMsg' = ""
  /\ UNCHANGED <<outside, profilesTable, dbNextId, client>>

\* AfterMutation with the re-fetch issued after a failure too
AfterMutationFetchAlways(op, okT, done, failed) ==
  /\ Resumed
  /\ inflight' = Issue(Consume(op), Then(FetchTasksReq(op.cap, okT), done))
  /\ alertMsg' = (IF op.ok THEN "" ELSE failed)
  /\ UNCHANGED <<outside, store, client>>

\* AfterMutation without the re-fetch
AfterMutationNoFetch(op, okT, done, failed) ==
  /\ Resumed
  /\ inflight' = Consume(op)
  /\ alertMsg' = (IF op.ok THEN done ELSE failed)
  /\ UNCHANGED <<outside, store, client>>

\* a task handler after the await of its mutation: the re-fetch, or the alert
\* of the failure
AfterMutation(op, okT, done, failed) ==
  /\ Resumed
  /\ IF op.ok
     THEN /\ inflight' = Issue(Consume(op), Then(FetchTasksReq(op.cap, okT), done))
          /\ alertMsg' = ""
     ELSE /\ inflight' = Consume(op)
          /\ alertMsg' = failed
  /\ UNCHANGED <<outside, store, client>>

toggleResolve(op, okT) ==
  /\ op.kind = "toggle"
  /\ AfterMutation(op, okT, "", "Failed to update task status")

\* the form buffers newTask the create-task form can hold when it is submitted
\* every field left empty, or every field filled in, with a partner chosen
\* among the options the displayed partner list offers
NewTaskInputs ==
  {[title |-> "", project |-> "", assigned_to |-> "", due_date |-> ""]}
  \cup {[title |-> "T", project |-> pj, assigned_to |-> r.id, due_date |-> "D"] :
          pj \in {"", "Ops"}, r \in {x \in Rows(partners) : x.role = "partner"}}

OrElse(x, y) == IF x = "" THEN y ELSE x

\* handleCreateTask: the row it inserts
taskData(newTask) ==
  IF variant = "App"
  THEN [title |-> newTask.title,
        project |-> OrElse(newTask.project, "General"),
        assigned_to |-> OrElse(newTask.assigned_to, NULL),
        due_date |-> OrElse(newTask.due_date, NULL),
        created_by |-> session,
        status |-> "Pending"]
  ELSE [title |-> newTask.title,
        project |-> newTask.project,
        assigned_to |-> newTask.assigned_to,
        due_date |-> newTask.due_date,
        created_by |-> session,
        status |-> "Pending"]

\* the role check that opens handleCreateTask and handleDeleteTask
Forbidden == variant = "App" /\ ~isAdmin

\* .insert([row]): the store gives the row its id
InsertTask(row) ==
  /\ dbNextId <= MaxTasks
  /\ dbTasks' = dbTasks \cup
                   {[id |-> dbNextId, title |-> row.title,
                     project |-> row.project, assigned_to |-> row.assigned_to,
                     due_date |-> row.due_date, created_by |-> row.created_by,
                     status |-> row.status]}
  /\ dbNextId' = dbNextId + 1

\* handleCreateTask up to its await
handleCreateTask(newTask, ok) ==
  /\ Invoked
  /\ MainApp
  /\ IF Forbidden
     THEN /\ alertMsg' = "Only admins can create tasks"
          /\ UNCHANGED <<dbTasks, dbNextId, inflight>>
     ELSE /\ Room(1)
          /\ IF ok THEN InsertTask(taskData(newTask))
             ELSE UNCHANGED <<dbTasks, dbNextId>>
          /\ inflight' = Issue(inflight, Req("create", ok, <<>>, Cap, NULL, 0))
          /\ alertMsg' = ""
  /\ UNCHANGED <<outside, profilesTable, client>>

createResolve(op, okT) ==
  /\ op.kind = "create"
  /\ AfterMutation(op, okT,
                   IF variant = "App" THEN "Task created successfully!" ELSE "",
                   "Failed to create task")

\* .delete().eq('id', taskId): the table after the delete
DeleteTask(taskId) == {t \in dbTasks : t.id # taskId}

\* handleDeleteTask up to its await, for the id of a row of the displayed list
handleDeleteTask(taskId, confirmed, ok) ==
  /\ Invoked
  /\ MainApp
  /\ taskId \in {t.id : t \in Rows(tasks)}
  /\ IF Forbidden
     THEN /\ alertMsg' = "Only admins can delete tasks"
          /\ UNCHANGED <<dbTasks, inflight>>
     ELSE IF ~confirmed
     THEN /\ alertMsg' = ""
          /\ UNCHANGED <<dbTasks, inflight>>
     ELSE /\ Room(1)
          /\ dbTasks' = IF ok THEN DeleteTask(taskId) ELSE dbTasks
          /\ inflight' = Issue(inflight, Req("delete", ok, <<>>, Cap, NULL, 0))
          /\ alertMsg' = ""
  /\ UNCHANGED <<outside, profilesTable, dbNextId, client>>

deleteResolve(op, okT) ==
  /\ op.kind = "delete"
  /\ AfterMutation(op, okT,
                   IF variant = "App" THEN "Task deleted successfully!" ELSE "",
                   "Failed to delete task")

----------------------------------------------------------------------------
(* Partner removal (App.jsx only) *)

\* .delete().eq('assigned_to', partnerId): the table after the delete
\* DeleteTasksOf filtering on the wrong column
DeleteTasksCreatedBy(partnerId) == {t \in dbTasks : t.created_by # partnerId}

DeleteTasksOf(partnerId) == {t \in dbTasks : t.assigned_to # partnerId}

\* handleRemovePartner up to its first await, for the id of a card of the
\* displayed partner list
handleRemovePartner(partnerId, confirmed, ok) ==
  /\ Invoked
  /\ variant = "App"
  /\ MainApp
  /\ IF ~isAdmin
     THEN /\ alertMsg' = "Only admins can remove partners"
          /\ UNCHANGED <<dbTasks, inflight>>
     ELSE IF ~confirmed
     THEN /\ alertMsg' = ""
          /\ UNCHANGED <<dbTasks, inflight>>
     ELSE /\ partnerId \in {p.id : p \in Rows(partners)}
          /\ Room(1)
          /\ dbTasks' = IF ok THEN DeleteTasksOf(partnerId) ELSE dbTasks
          /\ inflight' = Issue(inflight,
                               Req("removeTasks", ok, <<>>, Cap, partnerId, dbNextId))
          /\ alertMsg' = ""
  /\ UNCHANGED <<outside, profilesTable, dbNextId, client>>

\* .delete().eq('id', partnerId): the table profiles after the delete
DeleteProfile(partnerId, ok) ==
  IF ok THEN <<[dbProfiles EXCEPT ![partnerId] = NoRow], dupProfiles \ {partnerId}>>
  ELSE profilesTable

\* tasksError with the error of the cleanup ignored
tasksErrorIgnored(op) == FALSE

\* handleRemovePartner: if (tasksError) throw tasksError
tasksError(op) == ~op.ok

\* handleRemovePartner after the delete of the tasks: the delete of the profile
removeTasksResolve(op, ok) ==
  /\ Resumed
  /\ op.kind = "removeTasks"
  /\ IF ~tasksError(op)
     THEN /\ dbProfiles' = DeleteProfile(op.user, ok)[1]
          /\ dupProfiles' = DeleteProfile(op.user, ok)[2]
          /\ inflight' = Issue(Consume(op),
                               Req("removeProfile", ok, <<>>, op.cap, op.user, op.tid))
          /\ alertMsg' = ""
     ELSE /\ inflight' = Consume(op)
          /\ alertMsg' = "Failed to remove partner"
          /\ UNCHANGED profilesTable
  /\ UNCHANGED <<outside, dbTasks, dbNextId, client>>

\* handleRemovePartner after the delete of the profile: await fetchPartners()
removeProfileResolve(op, okP) ==
  /\ Resumed
  /\ op.kind = "removeProfile"
  /\ IF op.ok
     THEN /\ inflight' = Issue(Consume(op),
                 [FetchPartnersReq(op.cap, okP) EXCEPT
                                               !.user = op.user,
                                               !.tid = op.tid,
                                               !.next = "removePartner"])
          /\ alertMsg' = ""
     ELSE /\ inflight' = Consume(op)
          /\ alertMsg' = "Failed to remove partner"
  /\ UNCHANGED <<outside, store, client>>

\* handleRemovePartner after fetchPartners: await fetchTasks(), then the alert
removePartnersResolve(op, okT) ==
  /\ Resumed
  /\ op.kind = "fetchPartners" /\ op.next = "removePartner"
  /\ partners' = (IF op.ok THEN op.data ELSE <<>>)
  /\ inflight' = Issue(Consume(op),
                       [Then(FetchTasksReq(op.cap, okT),
                             "Partner removed successfully!")
                          EXCEPT !.user = op.user, !.tid = op.tid])
  /\ alertMsg' = ""
  /\ UNCHANGED <<outside, store, session, profile, tasks, loading, errorMsg>>

----------------------------------------------------------------------------
(* Partner sign-up (App.jsx only) *)

\* handleAddPartner up to its await: auth.signUp for the new partner
handleAddPartner(ok) ==
  /\ Invoked
  /\ variant = "App"
  /\ MainApp
  /\ IF ~isAdmin
     THEN /\ alertMsg' = "Only admins can add partners"
          /\ UNCHANGED inflight
     ELSE /\ Room(1)
          /\ inflight' = Issue(inflight, Req("addPartner", ok, <<>>, Cap, NULL, 0))
          /\ alertMsg' = ""
  /\ UNCHANGED <<outside, store, client>>

\* handleAddPartner after signUp: setTimeout(fetchPartners, 1000), then the
\* alert; the pending timer is kept with the requests in flight
addPartnerResolve(op) ==
  /\ Resumed
  /\ op.kind = "addPartner"
  /\ IF op.ok
     THEN /\ inflight' = Issue(Consume(op), Req("timer", TRUE, <<>>, op.cap, NULL, 0))
          /\ alertMsg' = "Partner added successfully!"
     ELSE /\ inflight' = Consume(op)
          /\ alertMsg' = "Failed to add partner"
  /\ UNCHANGED <<outside, store, client>>

\* the timer of handleAddPartner fires: fetchPartners up to its await
partnerTimerFires(op, okP) ==
  /\ Resumed
  /\ op.kind = "timer"
  /\ inflight' = Issue(Consume(op), FetchPartnersReq(op.cap, okP))
  /\ alertMsg' = ""
  /\ UNCHANGED <<outside, store, client>>

----------------------------------------------------------------------------

Pending == BagToSet(inflight)

Next ==
  \/ \E m \in {"login", "signup"}, u \in Users, ok \in BOOLEAN : handleAuth(m, u, ok)
  \/ \E op \in Pending, okF, okT, okP \in BOOLEAN : authResolveLogin(op, okF, okT, okP)
  \/ \E op \in Pending : authResolveSignup(op)
  \/ signOut
  \/ unmount
  \/ \E op \in Pending, okI, okT, okP \in BOOLEAN : fetchProfileResolve(op, okI, okT, okP)
  \/ \E op \in Pending, okT, okP \in BOOLEAN : insertProfileResolve(op, okT, okP)
  \/ \E op \in Pending : fetchTasksResolve(op)
  \/ \E op \in Pending : fetchPartnersResolve(op)
  \/ \E task \in Rows(tasks), ok \in BOOLEAN : toggleTaskStatus(task, ok)
  \/ \E op \in Pending, okT \in BOOLEAN : toggleResolve(op, okT)
  \/ \E newTask \in NewTaskInputs, ok \in BOOLEAN : handleCreateTask(newTask, ok)
  \/ \E op \in Pending, okT \in BOOLEAN : createResolve(op, okT)
  \/ \E taskId \in TaskIds, c, ok \in BOOLEAN : handleDeleteTask(taskId, c, ok)
  \/ \E op \in Pending, okT \in BOOLEAN : deleteResolve(op, okT)
  \/ \E u \in Users, c, ok \in BOOLEAN : handleRemovePartner(u, c, ok)
  \/ \E op \in Pending, ok \in BOOLEAN : removeTasksResolve(op, ok)
  \/ \E op \in Pending, okP \in BOOLEAN : removeProfileResolve(op, okP)
  \/ \E op \in Pending, okT \in BOOLEAN : removePartnersResolve(op, okT)
  \/ \E ok \in BOOLEAN : handleAddPartner(ok)
  \/ \E op \in Pending : addPartnerResolve(op)
  \/ \E op \in Pending, okP \in BOOLEAN : partnerTimerFires(op, okP)

Spec == Init /\ [][Next]_vars

----------------------------------------------------------------------------
(* Properties *)

\* the requests the step issues
FreshReqs ==
  {op \in BagToSet(inflight') : CopiesIn(op, inflight') > CopiesIn(op, inflight)}

\* the status cycle of the specification
CycleNext(s) ==
  CASE s = "Pending" -> "In Progress"
    [] s = "In Progress" -> "Completed"
    [] s = "Completed" -> "Pending"
    [] OTHER -> "none"

\* C1: while a user with role partner is signed in, the displayed task list
\* holds only tasks assigned to that user.
C1_PartnerSeesOnlyOwn ==
  (MainApp /\ profile.id = session /\ profile.role = "partner")
    => \A t \in Rows(tasks) : t.assigned_to = session

\* C2: a fetchTasks of an admin's closure that succeeds asks for every task of
\* the store, whatever its assigned_to, and displays exactly the answer.
C2_AdminSeesAll ==
  [][ /\ \A op \in FreshReqs :
           (op.kind = "fetchTasks" /\ op.ok /\ op.cap.role = "admin")
             => (Rows(op.data) = dbTasks' /\ Len(op.data) = Cardinality(dbTasks'))
      /\ \A op \in Pending :
           (fetchTasksResolve(op) /\ op.ok /\ op.cap.role = "admin")
             => tasks' = op.data ]_vars

C2_Witness ==
  /\ session = "a" /\ isAdmin
  /\ Rows(tasks) = dbTasks
  /\ \E t \in Rows(tasks) : t.assigned_to # session

\* C3: handleCreateTask invoked without an admin profile shows the Forbidden
\* alert, issues no request and leaves the stored tasks as they are.
C3_CreateForbidden ==
  [][ \A newTask \in NewTaskInputs, ok \in BOOLEAN :
        (handleCreateTask(newTask, ok) /\ ~isAdmin)
          => /\ dbTasks' = dbTasks
             /\ inflight' = inflight
             /\ alertMsg' = "Only admins can create tasks" ]_vars

\* C4: handleDeleteTask invoked without an admin profile shows the Forbidden
\* alert, issues no request and leaves the stored tasks as they are.
C4_DeleteForbidden ==
  [][ \A taskId \in TaskIds, c, ok \in BOOLEAN :
        (handleDeleteTask(taskId, c, ok) /\ ~isAdmin)
          => /\ dbTasks' = dbTasks
             /\ inflight' = inflight
             /\ alertMsg' = "Only admins can delete tasks" ]_vars

C6_NextOfStored ==
  [][ \A task \in Rows(tasks) :
        toggleTaskStatus(task, TRUE)
          => \A t \in dbTasks :
               t.id = task.id
                 => \E t2 \in dbTasks' : t2.id = t.id /\ t2.status = CycleNext(t.status) ]_vars

C8_InsertedRow ==
  [][ \A newTask \in NewTaskInputs :
        handleCreateTask(newTask, TRUE)
          => \A t \in dbTasks' \ dbTasks :
               /\ t.status = "Pending"
               /\ t.created_by = session
               /\ newTask.project = "" => t.project = "General"
               /\ newTask.assigned_to = "" => t.assigned_to = NULL
               /\ newTask.due_date = "" => t.due_date = NULL ]_vars

\* C9: handleCreateTask invoked with an empty title issues no insert and leaves
\* the stored tasks as they are.
C9_EmptyTitleRejected ==
  [][ \A newTask \in NewTaskInputs, ok \in BOOLEAN :
        (handleCreateTask(newTask, ok) /\ newTask.title = "")
          => (dbTasks' = dbTasks /\ inflight' = inflight) ]_vars

\* the requests of handleRemovePartner for partner x after the delete of x's
\* tasks succeeded
RemovalPastCleanup(r) ==
  \/ r.kind = "removeTasks" /\ r.ok
  \/ r.kind = "removeProfile"
  \/ r.kind = "fetchPartners" /\ r.next = "removePartner"
  \/ r.kind = "fetchTasks" /\ r.next = "Partner removed successfully!"

\* C10 as stated: when handleRemovePartner completes for partner X, the store
\* holds no task assigned to X and no profile of X, and the displayed partner
\* list and task list hold neither X nor a task of X.
C10_RemovedEverywhere ==
  [][ \A op \in Pending :
        (fetchTasksResolve(op) /\ op.next = "Partner removed successfully!")
          => /\ \A t \in dbTasks' : t.assigned_to # op.user
             /\ dbProfiles'[op.user] = NoRow
             /\ \A r \in Rows(partners') : r.id # op.user
             /\ \A t \in Rows(tasks') : t.assigned_to # op.user ]_vars

\* C10 amended: the cleanup deletes every task assigned to X at that moment
\* (a task of X in the store afterwards was inserted later), the profile delete
\* deletes X's profile, the handler displays the partner list and the task
\* list it fetched after both deletes, and on completion the displayed task
\* list holds no task that was assigned to X when the cleanup ran.
C10_RemovalEffects ==
  [][ /\ \A x \in Users :
           (isAdmin /\ handleRemovePartner(x, TRUE, TRUE))
             => \A t \in dbTasks' : t.assigned_to # x
      /\ \A r \in BagToSet(inflight') :
           RemovalPastCleanup(r)
             => \A t \in dbTasks' : t.assigned_to = r.user => t.id >= r.tid
      /\ \A op \in Pending :
           (op.kind = "removeTasks" /\ op.ok /\ removeTasksResolve(op, TRUE))
             => dbProfiles'[op.user] = NoRow
      /\ \A op \in Pending :
           (op.kind = "removeProfile" /\ op.ok /\ removeProfileResolve(op, TRUE))
             => \A f \in FreshReqs :
                  (\E r \in Rows(f.data) : r.id = op.user) => dbProfiles[op.user] # NoRow
      /\ \A op \in Pending, okT \in BOOLEAN :
           (op.kind = "fetchPartners" /\ removePartnersResolve(op, okT))
             => partners' = (IF op.ok THEN op.data ELSE <<>>)
      /\ \A op \in Pending :
           (op.next = "Partner removed successfully!" /\ fetchTasksResolve(op))
             => \A t \in Rows(tasks') : t.assigned_to = op.user => t.id >= op.tid ]_vars

C10_Witness ==
  /\ calls = 1
  /\ alertMsg = "Partner removed successfully!"
  /\ dbTasks = {}
  /\ dbProfiles["p"] = NoRow
  /\ partners # <<>>
  /\ \A r \in Rows(partners) : r.id # "p"

\* C11: in handleRemovePartner the delete of the profile is attempted even
\* when the delete of the partner's tasks has failed.
C11_BothDeletionsAttempted ==
  [][ \A op \in Pending, ok \in BOOLEAN :
        (removeTasksResolve(op, ok) /\ ~op.ok)
          => \E f \in FreshReqs : f.kind = "removeProfile" ]_vars

\* C12: handleAddPartner and handleRemovePartner invoked while the profile's
\* role is not admin issue no request and leave the store and the displayed
\* state as they are.
C12_PartnerHandlersForbidden ==
  [][ /\ \A ok \in BOOLEAN :
           (handleAddPartner(ok) /\ profile.role # "admin")
             => (inflight' = inflight /\ UNCHANGED <<store, client>>)
      /\ \A u \in Users, c, ok \in BOOLEAN :
           (handleRemovePartner(u, c, ok) /\ profile.role # "admin")
             => (inflight' = inflight /\ UNCHANGED <<store, client>>) ]_vars

C12_Witness ==
  /\ profile.role = "partner"
  /\ alertMsg \in {"Only admins can add partners", "Only admins can remove partners"}

\* C13: when the mutation of toggleTaskStatus, handleCreateTask or
\* handleDeleteTask has succeeded, the handler issues fetchTasks and leaves the
\* displayed list alone; the answer of a fetchTasks is the ordered rows of one
\* query on the store; and the displayed list changes only by taking the
\* answer of one fetchTasks, or by being emptied.
C13_RefetchAfterMutation ==
  [][ /\ \A op \in Pending, okT \in BOOLEAN :
           ((toggleResolve(op, okT) \/ createResolve(op, okT) \/ deleteResolve(op, okT))
              /\ op.ok)
             => /\ \E f \in FreshReqs : f.kind = "fetchTasks"
                /\ tasks' = tasks
      /\ \A f \in FreshReqs :
           (f.kind = "fetchTasks" /\ f.ok)
             => \/ f.data = OrderDesc(dbTasks')
                \/ f.data = OrderDesc({t \in dbTasks' : t.assigned_to = f.cap.uid})
      /\ tasks' # tasks
           => \/ tasks' = <<>>
              \/ \E op \in Pending :
                   /\ op.kind = "fetchTasks" /\ op.ok
                   /\ inflight' = Consume(op)
                   /\ tasks' = op.data ]_vars

C13_Witness ==
  /\ calls >= 1
  /\ \E t \in Rows(tasks) : t.status = "In Progress" /\ t \in dbTasks

\* the continuation of a handler that runs when its mutating call has answered
MutationResolve(op) ==
  \/ \E okT \in BOOLEAN : toggleResolve(op, okT)
  \/ \E okT \in BOOLEAN : createResolve(op, okT)
  \/ \E okT \in BOOLEAN : deleteResolve(op, okT)
  \/ addPartnerResolve(op)
  \/ \E ok \in BOOLEAN : removeTasksResolve(op, ok)
  \/ \E okP \in BOOLEAN : removeProfileResolve(op, okP)

\* C14: when a mutating call has answered with an error, its handler shows one
\* alert and ends: it issues no request (no retry, no re-fetch) and leaves the
\* store and the displayed tasks and partners as they are.
C14_FailureReportedOnce ==
  [][ \A op \in Pending :
        (~op.ok /\ MutationResolve(op))
          => /\ alertMsg' # ""
             /\ inflight' = Consume(op)
             /\ tasks' = tasks /\ partners' = partners
             /\ UNCHANGED store ]_vars

C14_Witness ==
  /\ alertMsg \in {"Failed to update task status", "Failed to create task",
                   "Failed to delete task", "Failed to add partner",
                   "Failed to remove partner"}
  /\ tasks # <<>>

\* the fetch that request op belongs to was started for a session that is not
\* the current one, or the component has been torn down since
Late(op, uid) == ~mounted \/ uid # session

\* C15: a fetchProfile, fetchTasks or fetchPartners whose answer arrives after
\* the component was torn down or the session changed leaves profile, tasks
\* and partners as they are.
C15_NoLateWrites ==
  [][ \A op \in Pending :
        /\ (fetchTasksResolve(op) /\ Late(op, op.cap.uid)) => tasks' = tasks
        /\ (fetchPartnersResolve(op) /\ Late(op, op.cap.uid)) => partners' = partners
        /\ ((\E okI, okT, okP \in BOOLEAN : fetchProfileResolve(op, okI, okT, okP))
              /\ Late(op, op.user))
             => profile' = profile ]_vars

\* C16: once the component is torn down, no onAuthStateChange registration it
\* made is active with the provider.
C16_UnsubscribedOnTeardown == ~mounted => subs = 0

\* the step is a fetchProfile continuation that calls setProfile
ProfileSetBy(op) ==
  /\ op.kind \in {"fetchProfile", "insertProfile"}
  /\ op.ok /\ op.data # <<>>
  /\ \/ \E okI, okT, okP \in BOOLEAN : fetchProfileResolve(op, okI, okT, okP)
     \/ \E okT, okP \in BOOLEAN : insertProfileResolve(op, okT, okP)

\* C17: while the component is mounted, a sign-in starts a fetchProfile for
\* the identity signed in, and a setProfile under a session starts a fetchTasks
\* for that session and profile, and a fetchPartners exactly when the profile's
\* role is admin.
C17_SessionChangeRefetches ==
  [][ /\ \A op \in Pending :
           (op.kind = "login" /\ op.ok /\ mounted
              /\ \E okF, okT, okP \in BOOLEAN : authResolveLogin(op, okF, okT, okP))
             => /\ session' = op.user
                /\ \E f \in FreshReqs : f.kind = "fetchProfile" /\ f.user = op.user
      /\ \A op \in Pending :
           (ProfileSetBy(op) /\ mounted /\ session # NULL)
             => /\ profile' = op.data[1]
                /\ \E f \in FreshReqs :
                     /\ f.kind = "fetchTasks"
                     /\ f.cap = [role |-> profile'.role, uid |-> session]
                /\ (\E g \in FreshReqs : g.kind = "fetchPartners")
                     <=> profile'.role = "admin" ]_vars

C17_Witness ==
  /\ mounted /\ session = "a" /\ profile.id = "a" /\ isAdmin /\ calls = 2
  /\ \E f, g \in Pending :
       /\ f.kind = "fetchTasks" /\ f.cap.uid = "a"
       /\ g.kind = "fetchPartners" /\ g.cap.uid = "a"

\* C18: when fetchProfile finds no row for the signed-in identity, it inserts a
\* profile with that identity's id and role partner, and when the insert has
\* succeeded it sets the current profile to the created row.
C18_DefaultProfileCreated ==
  [][ /\ \A op \in Pending :
           ((\E okT, okP \in BOOLEAN : fetchProfileResolve(op, TRUE, okT, okP))
              /\ IsNotFound(op) /\ dbProfiles[op.user] = NoRow)
             => /\ dbProfiles'[op.user] = "partner"
                /\ \E f \in FreshReqs :
                     f.kind = "insertProfile"
                       /\ f.data = <<[id |-> op.user, role |-> "partner"]>>
      /\ \A op \in Pending :
           ((\E okT, okP \in BOOLEAN : insertProfileResolve(op, okT, okP)) /\ op.ok)
             => profile' = [id |-> op.user, role |-> "partner"] ]_vars

C20_ProfileFailureNonFatal ==
  [][ \A op \in Pending :
        (~op.ok /\ (\/ \E okI, okT, okP \in BOOLEAN : fetchProfileResolve(op, okI, okT, okP)
                    \/ \E okT, okP \in BOOLEAN : insertProfileResolve(op, okT, okP)))
          => /\ inflight' = Consume(op)
             /\ UNCHANGED <<store, client>> ]_vars

C20_Witness ==
  /\ calls = 0 /\ mounted
  /\ session = "a" /\ profile = NoProfile
  /\ inflight = EmptyBag

\* C21: no step changes the role of a profile row that stays in the table, no
\* step stores a row with role admin that was not there, and a row that
\* appears is the default profile with role partner, written by fetchProfile.
C21_RoleImmutable ==
  [][ \A u \in Users :
        /\ (dbProfiles[u] # NoRow /\ dbProfiles'[u] # NoRow)
             => dbProfiles'[u] = dbProfiles[u]
        /\ dbProfiles'[u] = "admin" => dbProfiles[u] = "admin"
        /\ (dbProfiles[u] = NoRow /\ dbProfiles'[u] # NoRow)
             => /\ dbProfiles'[u] = "partner"
                /\ \E f \in FreshReqs : f.kind = "insertProfile" /\ f.user = u ]_vars

C21_Witness ==
  /\ dbProfiles["p"] = "partner"
  /\ \E op \in Pending : op.kind = "insertProfile" /\ op.ok /\ op.user = "p"

\* C27: whenever a session and a profile are both set, the profile is the
\* profile of the session's user.
C27_ProfileMatchesSession ==
  (session # NULL /\ profile # NoProfile) => profile.id = session

\* C28: the displayed partner list is non-empty only while the current profile
\* has role admin.
C28_PartnersOnlyForAdmin == partners # <<>> => isAdmin

\* C29: in handleRemovePartner the delete of the profile is issued only when
\* the delete of the partner's tasks has answered without error: after a failed
\* cleanup the handler issues no delete of the profile and leaves the table
\* profiles as it is, and a profile row disappears only in the continuation of
\* a successful cleanup for that partner.
C29_ProfileDeletedAfterCleanup ==
  [][ /\ \A op \in Pending, ok \in BOOLEAN :
           (op.kind = "removeTasks" /\ ~op.ok /\ removeTasksResolve(op, ok))
             => /\ UNCHANGED profilesTable
                /\ \A f \in FreshReqs : f.kind # "removeProfile"
      /\ \A f \in FreshReqs :
           f.kind = "removeProfile"
             => \E op \in Pending :
                  op.kind = "removeTasks" /\ op.ok /\ op.user = f.user
      /\ \A u \in Users :
           (dbProfiles[u] # NoRow /\ dbProfiles'[u] = NoRow)
             => \E op \in Pending :
                  /\ op.kind = "removeTasks" /\ op.ok /\ op.user = u
                  /\ removeTasksResolve(op, TRUE) ]_vars

C29_Witness ==
  /\ alertMsg = "Failed to remove partner"
  /\ calls = 1
  /\ inflight = EmptyBag
  /\ dbProfiles["p"] = "partner"
  /\ \E t \in dbTasks : t.assigned_to = "p"
  /\ \E r \in Rows(partners) : r.id = "p"

----------------------------------------------------------------------------
(* The dashboard aggregate: the useMemo `stats` of the component.  Besides  *)
(* the two versions above, src/src/main.jsx carries after its render call   *)
(* the source of a third component ("main"), whose aggregate is modelled    *)
(* here.  A field a version does not return is Absent.  Profile rows carry  *)
(* no name column in this model: a partner's id stands for p.name.          *)

MaxStatLen == 3      \* tasks in a list the aggregate is computed for

StatsVariants == Variants \cup {"main"}
Absent == "undefined"

\* CountStatus counting the tasks of the other statuses
CountOtherStatus(ts, s) == Cardinality({i \in 1..Len(ts) : ts[i].status # s})

\* tasks.filter(t => t.status === s).length
CountStatus(ts, s) == Cardinality({i \in 1..Len(ts) : ts[i].status = s})

\* the three entries the versions build statusData from
statusEntries(ts) ==
  << [name |-> "Pending",     value |-> CountStatus(ts, "Pending")],
     [name |-> "In Progress", value |-> CountStatus(ts, "In Progress")],
     [name |-> "Completed",   value |-> CountStatus(ts, "Completed")] >>

\* .filter(item => item.value > 0)
Positive(item) == item.value > 0

\* the keys of projectAgg in the order the reduce inserts them
RECURSIVE projectAgg(_)
projectAgg(ts) ==
  IF ts = <<>> THEN <<>>
  ELSE LET front == projectAgg(SubSeq(ts, 1, Len(ts) - 1))
           name  == ts[Len(ts)].project
       IN  IF name \in Rows(front) THEN front ELSE Append(front, name)

\* Math.round((done / (total || 1)) * 100) for 0 <= done <= total
RoundPercent(done, total) ==
  LET d == IF total = 0 THEN 1 ELSE total
  IN  (200 * done + d) \div (2 * d)

\* projectProgressData; the label `${done}/${total} Done` is kept as the pair
projectProgressData(ts) ==
  LET names == projectAgg(ts)
  IN  [i \in 1..Len(names) |->
         LET total == Cardinality({j \in 1..Len(ts) : ts[j].project = names[i]})
             done  == Cardinality({j \in 1..Len(ts) :
                          ts[j].project = names[i] /\ ts[j].status = "Completed"})
         IN  [name |-> names[i], progress |-> RoundPercent(done, total),
              label |-> <<done, total>>]]

\* partnerData
partnerData(ts, ps, admin) ==
  IF admin
  THEN [i \in 1..Len(ps) |->
          [name |-> ps[i].id,
           tasks |-> Cardinality({j \in 1..Len(ts) : ts[j].assigned_to = ps[i].id})]]
  ELSE <<>>

\* the value of the useMemo for tasks ts, partners ps and isAdmin admin
computeStats(v, ts, ps, admin) ==
  IF v = "App"
  THEN [total |-> Len(ts),
        completed |-> CountStatus(ts, "Completed"),
        inProgress |-> CountStatus(ts, "In Progress"),
        pending |-> CountStatus(ts, "Pending"),
        statusData |-> SelectSeq(statusEntries(ts), Positive),
        projectProgressData |-> projectProgressData(ts),
        partnerData |-> partnerData(ts, ps, admin)]
  ELSE IF v = "part_000"
  THEN [total |-> Len(ts),
        completed |-> CountStatus(ts, "Completed"),
        inProgress |-> CountStatus(ts, "In Progress"),
        pending |-> CountStatus(ts, "Pending"),
        statusData |-> statusEntries(ts),
        projectProgressData |-> Absent,
        partnerData |-> Absent]
  ELSE [total |-> Len(ts),
        completed |-> CountStatus(ts, "Completed"),
        inProgress |-> Absent,
        pending |-> Absent,
        statusData |-> statusEntries(ts),
        projectProgressData |-> Absent,
        partnerData |-> Absent]

\* the task rows a displayed list can hold: any of the three statuses or one
\* the column holds besides them, in one of two projects
StatRows ==
  {[title |-> "T", project |-> pa[1], assigned_to |-> pa[2], due_date |-> NULL,
    created_by |-> "a", status |-> s] :
     s \in Statuses \cup {"On Hold"},
     pa \in {<<"General", NULL>>, <<"Ops", "p">>}}

WithIds(f) ==
  [i \in 1..Len(f) |->
     [id |-> i, title |-> f[i].title, project |-> f[i].project,
      assigned_to |-> f[i].assigned_to, due_date |-> f[i].due_date,
      created_by |-> f[i].created_by, status |-> f[i].status]]

StatLists == UNION {{WithIds(f) : f \in [1..n -> StatRows]} : n \in 0..MaxStatLen}

\* the component rendered with a task list, a partner list and a profile; the
\* dashboard has not computed its aggregate yet
InitStats ==
  /\ variant \in StatsVariants
  /\ tasks \in StatLists
  /\ partners \in {<<>>, <<[id |-> "p", role |-> "partner"],
                          [id |-> "a", role |-> "admin"]>>}
  /\ profile \in {[id |-> "a", role |-> "admin"], [id |-> "p", role |-> "partner"]}
  /\ session = profile.id
  /\ stats = NoStats
  /\ dbProfiles = [u \in Users |-> IF u = "a" THEN "admin" ELSE "partner"]
  /\ dupProfiles = {}
  /\ dbTasks = Rows(tasks)
  /\ dbNextId = Len(tasks) + 1
  /\ loading = FALSE
  /\ errorMsg = ""
  /\ alertMsg = ""
  /\ inflight = EmptyBag
  /\ calls = 0
  /\ mounted = TRUE
  /\ subs = 1
  /\ Initialized

\* the render evaluates the useMemo
renderStats ==
  /\ stats = NoStats
  /\ stats' = computeStats(variant, tasks, partners, isAdmin)
  /\ UNCHANGED <<variant, page, store, client, alertMsg, inflight, calls, life>>

NextStats == renderStats

SpecStats == InitStats /\ [][NextStats]_vars

\* C23: the aggregate of an empty task list has total, completed, inProgress
\* and pending 0, a statusData of three entries with value 0, an empty
\* project-progress list and an empty partner-load list.
C23_EmptyStats ==
  (stats # NoStats /\ tasks = <<>> /\ variant \in Variants)
    => /\ stats.total = 0 /\ stats.completed = 0
       /\ stats.inProgress = 0 /\ stats.pending = 0
       /\ Len(stats.statusData) = 3
       /\ \A i \in 1..3 : stats.statusData[i].value = 0
       /\ stats.projectProgressData = <<>>
       /\ stats.partnerData = <<>>

\* C24: statusData has three entries, named Pending, In Progress, Completed in
\* this order, each with the number of tasks of that status.
C24_StatusDataFixed ==
  stats # NoStats
    => /\ Len(stats.statusData) = 3
       /\ \A i \in 1..Len(stats.statusData) :
            /\ stats.statusData[i].name = statusOrder[i]
            /\ stats.statusData[i].value =
                 Cardinality({j \in 1..Len(tasks) : tasks[j].status = statusOrder[i]})

\* C25: in src/src/App.jsx and src/unnamed/part_000 the aggregate has total
\* equal to the number of tasks, and completed, inProgress and pending equal to
\* the number of tasks of that status; when every task has one of the three
\* statuses the three add up to total.
C25_CountsByStatus ==
  (stats # NoStats /\ variant \in Variants)
    => LET n(s) == Cardinality({j \in 1..Len(tasks) : tasks[j].status = s})
       IN  /\ stats.total = Len(tasks)
           /\ stats.completed = n("Completed")
           /\ stats.inProgress = n("In Progress")
           /\ stats.pending = n("Pending")
           /\ (\A j \in 1..Len(tasks) : tasks[j].status \in Statuses)
                => stats.total = stats.completed + stats.inProgress + stats.pending

C25_Witness ==
  /\ variant = "App"
  /\ stats # NoStats
  /\ Len(tasks) = 3
  /\ tasks[1].status = "Pending" /\ tasks[2].status = "Pending"
  /\ tasks[3].status = "Completed"
  /\ stats.total = 3 /\ stats.pending = 2 /\ stats.completed = 1
  /\ stats.inProgress = 0

----------------------------------------------------------------------------
(* Initialization: the useEffect with the empty dependency list.  Each run  *)
(* of the effect makes a closure with its own isMounted; the closures are   *)
(* numbered, `effect` is the number of the latest and `mounted` its flag,   *)
(* and the flag of every earlier closure is false.  The load of the script  *)
(* and the answer of getSession are kept with the requests in flight: tid   *)
(* holds the number of the closure that listens, data the client handle the *)
(* call was made on.  What each answers is chosen when it is issued.        *)

MaxEffects == 3      \* runs of the initialization effect in one behaviour

\* what getSession answers: no session, a user's session, or a rejection
SessionAnswers ==
  {[ok |-> TRUE, user |-> u] : u \in {NULL} \cup Users}
    \cup {[ok |-> FALSE, user |-> NULL]}

\* what the effect and initSupabase read and write
World ==
  [scriptTag |-> scriptTag, sdk |-> sdk, supabaseInstance |-> supabaseInstance,
   created |-> created, loading |-> loading, errorMsg |-> errorMsg,
   inflight |-> inflight, subs |-> subs]

Becomes(w) ==
  /\ scriptTag' = w.scriptTag
  /\ sdk' = w.sdk
  /\ supabaseInstance' = w.supabaseInstance
  /\ created' = w.created
  /\ loading' = w.loading
  /\ errorMsg' = w.errorMsg
  /\ inflight' = w.inflight
  /\ subs' = w.subs

\* credentialsMissing never finding them missing
credentialsIgnored == FALSE

\* initSupabase: !url || !key
credentialsMissing == ~creds

\* NeedsClient constructing a client on every run
AlwaysNeedsClient(w) == TRUE

\* initSupabase: if (!supabaseInstance)
NeedsClient(w) == w.supabaseInstance = NoClient

\* if (isMounted) { setErrorMsg(msg); setLoading(false); }
Failed(w, live, msg) ==
  IF live THEN [w EXCEPT !.errorMsg = msg, !.loading = FALSE] ELSE w

\* initSupabase of the closure eff, whose isMounted is live; okC says whether
\* createClient returns (or throws), gs what getSession will answer
initSupabase(w, eff, live, okC, gs) ==
  IF ~w.sdk THEN Failed(w, live, "Supabase library not loaded")
  ELSE IF credentialsMissing THEN Failed(w, live, "Supabase credentials missing")
  ELSE IF NeedsClient(w) /\ ~okC
  THEN Failed(w, live, "Failed to initialize database connection")
  ELSE LET w1 == IF NeedsClient(w)
                 THEN [w EXCEPT !.supabaseInstance = w.created + 1,
                                !.created = w.created + 1]
                 ELSE w
       IN  [w1 EXCEPT
              !.inflight = Issue(@, Req("getSession", gs.ok, <<w1.supabaseInstance>>,
                                        NoCap, gs.user, eff)),
              !.subs = @ + 1]

\* the body of the effect, run for the closure eff; okS says whether the
\* script it appends will load
effectBody(w, eff, okS, okC, gs) ==
  IF ~w.scriptTag
  THEN [w EXCEPT !.scriptTag = TRUE,
                 !.inflight = Issue(@, Req("scriptLoad", okS, <<>>, NoCap, NULL, eff))]
  ELSE initSupabase(w, eff, TRUE, okC, gs)

\* the component is mounted with fresh state and its effect runs; under
\* React.StrictMode the effect's cleanup and the effect run once more in the
\* same commit
mount(okS, okC, gs, okC2, gs2) ==
  /\ ~mounted
  /\ effect + (IF strictMode THEN 2 ELSE 1) <= MaxEffects
  /\ LET w0 == [World EXCEPT !.loading = TRUE, !.errorMsg = ""]
         w1 == effectBody(w0, effect + 1, okS, okC, gs)
         w2 == IF strictMode THEN effectBody(w1, effect + 2, okS, okC2, gs2)
               ELSE w1
     IN  Becomes(w2)
  /\ effect' = effect + (IF strictMode THEN 2 ELSE 1)
  /\ mounted' = TRUE
  /\ session' = NULL /\ profile' = NoProfile /\ tasks' = <<>> /\ partners' = <<>>
  /\ alertMsg' = ""
  /\ UNCHANGED <<variant, stats, strictMode, creds, store, calls>>

\* the script has loaded (script.onload = initSupabase) or failed to
\* (script.onerror, which only src/src/App.jsx sets)
scriptLoaded(op, okC, gs) ==
  /\ op.kind = "scriptLoad"
  /\ LET live == mounted /\ op.tid = effect
         w0   == [World EXCEPT !.inflight = Consume(op)]
     IN  Becomes(IF op.ok
                 THEN initSupabase([w0 EXCEPT !.sdk = TRUE], op.tid, live, okC, gs)
                 ELSE IF variant = "App"
                 THEN Failed(w0, live, "Failed to load Supabase SDK from CDN")
                 ELSE w0)
  /\ alertMsg' = ""
  /\ UNCHANGED <<variant, stats, strictMode, creds, effect, mounted, store,
                 session, profile, tasks, partners, calls>>

\* the callback of getSession().then(...); a rejection has no handler
getSessionResolve(op, okF) ==
  /\ op.kind = "getSession"
  /\ IF op.ok /\ mounted /\ op.tid = effect
     THEN /\ session' = op.user
          /\ loading' = FALSE
          /\ inflight' = IF op.user # NULL
                         THEN Issue(Consume(op), FetchProfileReq(op.user, okF))
                         ELSE Consume(op)
     ELSE /\ inflight' = Consume(op)
          /\ UNCHANGED <<session, loading>>
  /\ alertMsg' = ""
  /\ UNCHANGED <<outside, store, profile, tasks, partners, errorMsg, calls, life>>

\* the page before the component is mounted: the document may already hold
\* the script element, loaded or not
InitPage ==
  /\ variant \in Variants
  /\ strictMode \in BOOLEAN
  /\ creds \in BOOLEAN
  /\ scriptTag \in BOOLEAN
  /\ sdk \in BOOLEAN
  /\ sdk => scriptTag
  /\ supabaseInstance = NoClient
  /\ created = 0
  /\ effect = 0
  /\ mounted = FALSE
  /\ subs = 0
  /\ loading = TRUE
  /\ errorMsg = ""
  /\ alertMsg = ""
  /\ session = NULL
  /\ profile = NoProfile
  /\ tasks = <<>>
  /\ partners = <<>>
  /\ stats = NoStats
  /\ inflight = EmptyBag
  /\ calls = 0
  /\ dbProfiles = [u \in Users |-> IF u = "a" THEN "admin" ELSE "partner"]
  /\ dupProfiles = {}
  /\ dbTasks = {SeedTask(NULL)}
  /\ dbNextId = 2

NextInit ==
  \/ \E okS, okC, okC2 \in BOOLEAN, gs, gs2 \in SessionAnswers :
       mount(okS, okC, gs, okC2, gs2)
  \/ unmount
  \/ \E op \in Pending, okC \in BOOLEAN, gs \in SessionAnswers : scriptLoaded(op, okC, gs)
  \/ \E op \in Pending, okF \in BOOLEAN : getSessionResolve(op, okF)

SpecInit == InitPage /\ [][NextInit]_vars

\* the browser delivers the load event and the promise's answer
LiveInit ==
  /\ SpecInit
  /\ WF_vars(\E op \in Pending, okC \in BOOLEAN, gs \in SessionAnswers :
               scriptLoaded(op, okC, gs))
  /\ WF_vars(\E op \in Pending, okF \in BOOLEAN : getSessionResolve(op, okF))

\* C22: while the endpoint or the key is missing, no client is constructed, no
\* session is established, no session listener is registered and nothing but
\* the load of the script is ever started; and when initSupabase runs for the
\* mounted component with the SDK loaded, it sets the credentials error, ends
\* the loading state and starts nothing (no retry).  In src/src/App.jsx the
\* mounted component shows an error and no spinner as soon as the latest
\* closure is not waiting for the script any more.
C22_MissingCredentials ==
  [][ ~creds =>
        /\ supabaseInstance' = NoClient /\ created' = 0
        /\ session' = NULL /\ subs' = 0
        /\ \A f \in FreshReqs : f.kind = "scriptLoad"
        /\ (/\ variant = "App" /\ mounted'
            /\ \A q \in BagToSet(inflight') :
                 ~(q.kind = "scriptLoad" /\ q.tid = effect'))
             => (errorMsg' # "" /\ ~loading')
        /\ \A op \in Pending :
             (/\ op.kind = "scriptLoad" /\ op.ok /\ mounted /\ op.tid = effect
              /\ \E okC \in BOOLEAN, gs \in SessionAnswers : scriptLoaded(op, okC, gs))
               => /\ errorMsg' = "Supabase credentials missing"
                  /\ ~loading'
                  /\ FreshReqs = {}
        /\ (/\ sdk
            /\ \E okS, okC, okC2 \in BOOLEAN, gs, gs2 \in SessionAnswers :
                 mount(okS, okC, gs, okC2, gs2))
             => /\ errorMsg' = "Supabase credentials missing"
                /\ ~loading'
                /\ FreshReqs = {} ]_vars

C22_Witness ==
  /\ ~creds /\ mounted /\ ~loading
  /\ errorMsg = "Supabase credentials missing"
  /\ sdk /\ created = 0 /\ subs = 0
  /\ inflight = EmptyBag

\* C26: createClient returns a handle at most once in the life of the page,
\* however often the initialization effect runs, and every call made on the
\* client was made on the one handle the module holds.
C26_ClientConstructedOnce ==
  /\ created <= 1
  /\ supabaseInstance = created
  /\ \A op \in Pending : op.kind = "getSession" => op.data = <<supabaseInstance>>
  /\ subs > 0 => supabaseInstance # NoClient

C26_Witness ==
  /\ created = 1
  /\ effect >= 2
  /\ subs >= 2
  /\ \E op \in Pending : op.kind = "getSession" /\ op.tid = 1
  /\ \E op \in Pending : op.kind = "getSession" /\ op.tid >= 2

\* C30: whenever the mounted component is in the loading state, loading
\* becomes false at some later point unless the component is torn down.
C30_LoadingEnds ==
  [](mounted /\ loading => <>(~loading \/ ~mounted))

====
